---- MODULE Spec2Model ----
(***************************************************************************)
(* A model of scripts/migrate-tasks-to-beads.py: the extraction of task    *)
(* records from a deserialized tasks.yaml document (parse_tasks_yaml), the *)
(* rendering of the records as bd commands (generate_shell_script) and the *)
(* steps of main that connect them.                                        *)
(*                                                                         *)
(* Python strings are sequences of one-character strings, so that upper(), *)
(* lower(), replace(), split(), startswith(), slicing and sorted() are      *)
(* computed character by character as Python computes them.                *)
(***************************************************************************)
EXTENDS Integers, Sequences, FiniteSets, TLC

VARIABLES files, pc, data, script, outputs

vars == <<files, pc, data, script, outputs>>

(***************************************************************************)
(* Characters and the str methods the script uses.                         *)
(***************************************************************************)

\* The characters of the model in code-point order (sorted() compares
\* strings by code point).
Alphabet ==
    << " ", "\"", "'", "-", ".", "0", "1", "2", "3", "4", "5", "6", "7", "8", "9", ":",
       "A", "B", "C", "D", "E", "F", "G", "H", "I", "J", "K", "L", "M",
       "N", "O", "P", "Q", "R", "S", "T", "U", "V", "W", "X", "Y", "Z",
       "_",
       "a", "b", "c", "d", "e", "f", "g", "h", "i", "j", "k", "l", "m",
       "n", "o", "p", "q", "r", "s", "t", "u", "v", "w", "x", "y", "z" >>

Digits == << "0", "1", "2", "3", "4", "5", "6", "7", "8", "9" >>

UpperCase ==
    << "A", "B", "C", "D", "E", "F", "G", "H", "I", "J", "K", "L", "M",
       "N", "O", "P", "Q", "R", "S", "T", "U", "V", "W", "X", "Y", "Z" >>

LowerCase ==
    << "a", "b", "c", "d", "e", "f", "g", "h", "i", "j", "k", "l", "m",
       "n", "o", "p", "q", "r", "s", "t", "u", "v", "w", "x", "y", "z" >>

Range(s) == { s[i] : i \in DOMAIN s }

Pos(c, s) == CHOOSE i \in DOMAIN s : s[i] = c

Ord(c) == Pos(c, Alphabet)

\* str.isdigit() of a slice of at most one character: false on the empty slice.
IsDigit(s) == Len(s) > 0 /\ \A i \in DOMAIN s : s[i] \in Range(Digits)

LowerChar(c) == IF c \in Range(UpperCase) THEN LowerCase[Pos(c, UpperCase)] ELSE c

UpperChar(c) == IF c \in Range(LowerCase) THEN UpperCase[Pos(c, LowerCase)] ELSE c

\* str.lower()
Lower(s) == [ i \in DOMAIN s |-> LowerChar(s[i]) ]

\* str.upper()
Upper(s) == [ i \in DOMAIN s |-> UpperChar(s[i]) ]

\* str.replace(a, b) for one-character a and b
ReplaceChar(s, a, b) == [ i \in DOMAIN s |-> IF s[i] = a THEN b ELSE s[i] ]

\* str.startswith(p)
StartsWith(s, p) == Len(s) >= Len(p) /\ SubSeq(s, 1, Len(p)) = p

\* the slice s[a:b] (0-based, end exclusive, clipped to the string)
Slice(s, a, b) ==
    LET hi == IF b < Len(s) THEN b ELSE Len(s)
    IN  IF a >= hi THEN << >> ELSE SubSeq(s, a + 1, hi)

\* str.replace(p, "") for a non-empty pattern p: every occurrence, left to right
RECURSIVE Remove(_, _)
Remove(s, p) ==
    IF Len(s) = 0 THEN << >>
    ELSE IF StartsWith(s, p) THEN Remove(SubSeq(s, Len(p) + 1, Len(s)), p)
    ELSE << s[1] >> \o Remove(Tail(s), p)

\* str.split(c) for a one-character separator: the list of the parts, never
\* empty (the empty string splits into one empty part)
RECURSIVE Split(_, _)
Split(s, c) ==
    IF Len(s) = 0 THEN << << >> >>
    ELSE LET rest == Split(Tail(s), c)
         IN  IF s[1] = c THEN << << >> >> \o rest
             ELSE << << s[1] >> \o rest[1] >> \o Tail(rest)

\* str.strip(c)
RECURSIVE LStrip(_, _)
LStrip(s, c) == IF Len(s) > 0 /\ s[1] = c THEN LStrip(Tail(s), c) ELSE s

RECURSIVE RStrip(_, _)
RStrip(s, c) ==
    IF Len(s) > 0 /\ s[Len(s)] = c THEN RStrip(SubSeq(s, 1, Len(s) - 1), c) ELSE s

Strip(s, c) == RStrip(LStrip(s, c), c)

SlugChar(c) == c \in Range(LowerCase) \/ c \in Range(Digits)

\* re.sub(r'[^a-z0-9]+', '-', s): every maximal run of other characters
\* becomes one hyphen
RECURSIVE SubRuns(_, _)
SubRuns(s, inRun) ==
    IF Len(s) = 0 THEN << >>
    ELSE IF SlugChar(s[1]) THEN << s[1] >> \o SubRuns(Tail(s), FALSE)
    ELSE IF inRun THEN SubRuns(Tail(s), TRUE)
    ELSE << "-" >> \o SubRuns(Tail(s), TRUE)

slugify(text) == Strip(SubRuns(Lower(text), FALSE), "-")

\* str(n) for n >= 0
RECURSIVE Dec(_)
Dec(n) == IF n < 10 THEN << Digits[n + 1] >> ELSE Dec(n \div 10) \o << Digits[(n % 10) + 1] >>

\* a < b as Python compares strings
RECURSIVE StrLess(_, _)
StrLess(a, b) ==
    IF Len(b) = 0 THEN FALSE
    ELSE IF Len(a) = 0 THEN TRUE
    ELSE IF a[1] = b[1] THEN StrLess(Tail(a), Tail(b))
    ELSE Ord(a[1]) < Ord(b[1])

\* sorted(keys) of distinct strings
RECURSIVE Sorted(_)
Sorted(ks) ==
    IF Len(ks) = 0 THEN << >>
    ELSE LET m == CHOOSE i \in DOMAIN ks : \A j \in DOMAIN ks : j = i \/ StrLess(ks[i], ks[j])
         IN  << ks[m] >> \o Sorted([ i \in 1..(Len(ks) - 1) |-> IF i < m THEN ks[i] ELSE ks[i + 1] ])

(***************************************************************************)
(* Python values: what yaml.safe_load returns.  A mapping keeps its items  *)
(* in document order; its keys are strings.                                *)
(***************************************************************************)

PNull == [ kind |-> "null" ]

PInt(n) == [ kind |-> "int", n |-> n ]

PStr(s) == [ kind |-> "str", s |-> s ]

PList(xs) == [ kind |-> "list", items |-> xs ]

\* items: a sequence of <<key, value>> pairs with distinct keys
PMap(kvs) == [ kind |-> "map", items |-> kvs ]

IsStr(v) == v.kind = "str"

\* isinstance(v, dict)
IsMap(v) == v.kind = "map"

\* bool(v)
Truthy(v) ==
    CASE v.kind = "null" -> FALSE
      [] v.kind = "int"  -> v.n # 0
      [] v.kind = "str"  -> Len(v.s) > 0
      [] OTHER           -> Len(v.items) > 0

\* k in d
Has(d, k) == \E i \in DOMAIN d.items : d.items[i][1] = k

\* d[k]
Item(d, k) == d.items[CHOOSE i \in DOMAIN d.items : d.items[i][1] = k][2]

\* d.get(k, default)
Get(d, k, default) == IF Has(d, k) THEN Item(d, k) ELSE default

\* list(d.keys())
Keys(d) == [ i \in DOMAIN d.items |-> d.items[i][1] ]

\* The outcome of a step that may raise: exc is "" or the exception's name.
Ok(v) == [ exc |-> "", val |-> v ]

Raise(e) == [ exc |-> e, val |-> PNull ]

\* for x in v: the elements a for loop visits, or TypeError
Iter(v) ==
    CASE v.kind = "list" -> Ok(v.items)
      [] v.kind = "map"  -> Ok([ i \in DOMAIN v.items |-> PStr(v.items[i][1]) ])
      [] v.kind = "str"  -> Ok([ i \in DOMAIN v.s |-> PStr(<< v.s[i] >>) ])
      [] OTHER           -> Raise("TypeError")

\* hash(v) succeeds: lists and dicts are unhashable
Hashable(v) == v.kind \notin { "list", "map" }

(***************************************************************************)
(* The string literals of the script.                                      *)
(***************************************************************************)

k_metadata == << "m", "e", "t", "a", "d", "a", "t", "a" >>

k_project == << "p", "r", "o", "j", "e", "c", "t" >>

k_project_name == << "p", "r", "o", "j", "e", "c", "t", "_", "n", "a", "m", "e" >>

k_name == << "n", "a", "m", "e" >>

k_phases == << "p", "h", "a", "s", "e", "s" >>

k_id == << "i", "d" >>

k_tasks == << "t", "a", "s", "k", "s" >>

k_description == << "d", "e", "s", "c", "r", "i", "p", "t", "i", "o", "n" >>

k_priority == << "p", "r", "i", "o", "r", "i", "t", "y" >>

k_status == << "s", "t", "a", "t", "u", "s" >>

k_dependencies == << "d", "e", "p", "e", "n", "d", "e", "n", "c", "i", "e", "s" >>

k_references == << "r", "e", "f", "e", "r", "e", "n", "c", "e", "s" >>

k_phase == << "p", "h", "a", "s", "e" >>

k_estimated_hours == << "e", "s", "t", "i", "m", "a", "t", "e", "d", "_", "h", "o", "u", "r", "s" >>

s_unknown == << "u", "n", "k", "n", "o", "w", "n" >>

s_medium == << "m", "e", "d", "i", "u", "m" >>

s_critical == << "c", "r", "i", "t", "i", "c", "a", "l" >>

s_high == << "h", "i", "g", "h" >>

s_low == << "l", "o", "w" >>

s_pending == << "p", "e", "n", "d", "i", "n", "g" >>

s_in_progress_hyphen == << "i", "n", "-", "p", "r", "o", "g", "r", "e", "s", "s" >>

s_in_progress == << "i", "n", "_", "p", "r", "o", "g", "r", "e", "s", "s" >>

s_completed == << "c", "o", "m", "p", "l", "e", "t", "e", "d" >>

s_done == << "d", "o", "n", "e" >>

s_open == << "o", "p", "e", "n" >>

s_closed == << "c", "l", "o", "s", "e", "d" >>

s_phase_hyphen == << "p", "h", "a", "s", "e", "-" >>

s_task_hyphen == << "t", "a", "s", "k", "-" >>

s_Phase_space == << "P", "h", "a", "s", "e", " " >>

s_phase == << "p", "h", "a", "s", "e" >>

s_BEAD == << "B", "E", "A", "D", "_" >>

s_ellipsis == << ".", ".", "." >>

s_default == << "d", "e", "f", "a", "u", "l", "t" >>

(***************************************************************************)
(* priority_to_beads, status_to_beads, escape_shell                        *)
(***************************************************************************)

\* priority.lower() raises AttributeError on a value that is not a str
priority_to_beads(priority) ==
    IF ~IsStr(priority) THEN Raise("AttributeError")
    ELSE LET p == Lower(priority.s)
         IN  Ok(CASE p = s_critical -> 0
                  [] p = s_high     -> 1
                  [] p = s_medium   -> 2
                  [] p = s_low      -> 3
                  [] OTHER          -> 2)

status_to_beads(status) ==
    IF ~IsStr(status) THEN Raise("AttributeError")
    ELSE LET s == Lower(status.s)
         IN  Ok(CASE s = s_pending            -> s_open
                  [] s = s_in_progress_hyphen -> s_in_progress
                  [] s = s_in_progress        -> s_in_progress
                  [] s = s_completed          -> s_closed
                  [] s = s_done               -> s_closed
                  [] OTHER                    -> s_open)

\* the characters shlex.quote leaves unquoted: [a-zA-Z0-9_@%+=:,./-], those
\* of them the model's alphabet has
ShellSafe(c) ==
    \/ c \in Range(LowerCase) \/ c \in Range(UpperCase) \/ c \in Range(Digits)
    \/ c \in { "_", ":", ".", "-" }

\* s.replace("'", "'\"'\"'")
RECURSIVE QuoteQuotes(_)
QuoteQuotes(s) ==
    IF Len(s) = 0 THEN << >>
    ELSE (IF s[1] = "'" THEN << "'", "\"", "'", "\"", "'" >> ELSE << s[1] >>)
         \o QuoteQuotes(Tail(s))

\* shlex.quote(s) on a str: '' for the empty string, the string itself when
\* every character is safe, the string in single quotes otherwise
shlex_quote(text) ==
    IF Len(text) = 0 THEN << "'", "'" >>
    ELSE IF \A i \in DOMAIN text : ShellSafe(text[i]) THEN text
    ELSE << "'" >> \o QuoteQuotes(text) \o << "'" >>

\* lines 64-68 on a str
StripQuotes(quoted) ==
    IF StartsWith(quoted, << "'" >>) /\ quoted[Len(quoted)] = "'"
    THEN Slice(quoted, 1, Len(quoted) - 1)
    ELSE quoted

\* escape_shell(value): shlex.quote returns '' for every falsy value, a str
\* or not, and raises TypeError on a truthy value that is not a str
escape_shell(value) ==
    IF ~Truthy(value) THEN Ok(StripQuotes(<< "'", "'" >>))
    ELSE IF ~IsStr(value) THEN Raise("TypeError")
    ELSE Ok(StripQuotes(shlex_quote(value.s)))

(***************************************************************************)
(* parse_tasks_yaml                                                        *)
(***************************************************************************)

\* the longest task name structure 3 keeps whole
NameLimit == 100

\* An accumulator of the extraction loops: the exception raised so far (""
\* for none), the task records appended and task_id_map.
NoTasks == [ exc |-> "", tasks |-> << >>, task_id_map |-> [ x \in {} |-> << >> ] ]

Fail(e) == [ exc |-> e, tasks |-> << >>, task_id_map |-> [ x \in {} |-> << >> ] ]

\* m[k] = v on a dict
Put(m, k, v) == [ x \in (DOMAIN m) \cup { k } |-> IF x = k THEN v ELSE m[x] ]

\* tasks.append({...}) and task_id_map[task_id] = var_name
Emit(acc, rec) ==
    [ exc |-> "", tasks |-> Append(acc.tasks, rec),
      task_id_map |-> Put(acc.task_id_map, rec.id, rec.var_name) ]

\* metadata_of without the fallback to the project mapping
metadata_of_NoFallback(d) == Get(d, k_metadata, PMap(<< >>))

\* lines 86-88: the mapping the project name is read from
metadata_of(d) ==
    LET metadata == Get(d, k_metadata, PMap(<< >>))
    IN  IF ~Truthy(metadata) /\ Has(d, k_project) /\ IsMap(Item(d, k_project))
        THEN Item(d, k_project)
        ELSE metadata

\* line 89; metadata.get raises AttributeError on a value that is not a dict
project_name_of(metadata) ==
    IF ~IsMap(metadata) THEN Raise("AttributeError")
    ELSE Ok(Get(metadata, k_project,
                Get(metadata, k_project_name,
                    Get(metadata, k_name, PStr(s_unknown)))))

\* slugify(phase_name.replace('Phase ', '').split(':')[0])
phase_label_of(phase_name) == slugify(Split(Remove(phase_name, s_Phase_space), ":")[1])

\* lines 94-97: phase_names as the list of its assignments <<phase_id, slug>>,
\* or the exception of the first element that raises
RECURSIVE phase_names_from(_, _, _)
phase_names_from(elems, phase_idx, acc) ==
    IF Len(elems) = 0 THEN Ok(acc)
    ELSE LET phase == elems[1]
         IN  IF ~IsMap(phase) THEN Raise("AttributeError")
             ELSE LET phase_id   == Get(phase, k_id, PStr(s_phase_hyphen \o Dec(phase_idx)))
                      phase_name == Get(phase, k_name, phase_id)
                  IN  IF ~IsStr(phase_name) THEN Raise("AttributeError")
                      ELSE IF ~Hashable(phase_id) THEN Raise("TypeError")
                      ELSE phase_names_from(Tail(elems), phase_idx + 1,
                               Append(acc, << phase_id, phase_label_of(phase_name.s) >>))

\* phase_ref in phase_names
InPhaseNames(phase_names, ref) == \E i \in DOMAIN phase_names : phase_names[i][1] = ref

\* phase_names[phase_ref]: the last assignment to the key
PhaseNameOf(phase_names, ref) ==
    LET i == CHOOSE j \in DOMAIN phase_names :
                 /\ phase_names[j][1] = ref
                 /\ \A l \in DOMAIN phase_names : phase_names[l][1] = ref => l <= j
    IN  phase_names[i][2]

IsPhaseKey(k) == StartsWith(k, s_phase) /\ IsDigit(Slice(k, 5, 6))

\* line 100
phase_keys_of(d) == SelectSeq(Keys(d), IsPhaseKey)

IsNestedPhase(phase) == Truthy(Get(phase, k_tasks, PNull))

\* line 103, evaluated after the loop of lines 94-97 found every phase a dict
has_nested_tasks_of(phases) == \E i \in DOMAIN phases : IsNestedPhase(phases[i])

\* SelectStructure with the branches in the order 1, 2, 3
SelectStructure_Shape1First(phase_keys, has_nested_tasks, top_level_tasks) ==
    IF has_nested_tasks THEN 1
    ELSE IF Truthy(top_level_tasks) THEN 2
    ELSE IF Len(phase_keys) > 0 THEN 3
    ELSE 0

\* lines 106, 148, 169: the structure whose branch runs, 0 for none
SelectStructure(phase_keys, has_nested_tasks, top_level_tasks) ==
    IF Len(phase_keys) > 0 THEN 3
    ELSE IF has_nested_tasks THEN 1
    ELSE IF Truthy(top_level_tasks) THEN 2
    ELSE 0

\* line 129
var_name_3(task_id) == s_BEAD \o ReplaceChar(ReplaceChar(Upper(task_id), "-", "_"), ":", "_")

\* lines 156 and 174
var_name_12(task_id) == s_BEAD \o ReplaceChar(Upper(task_id), "-", "_")

\* lines 133-134
truncate_name(task_name) ==
    IF IsStr(task_name) /\ Len(task_name.s) > NameLimit
    THEN PStr(SubSeq(task_name.s, 1, NameLimit) \o s_ellipsis)
    ELSE task_name

\* default_task_id counting the task itself
default_task_id_OneBased(tasks) == s_task_hyphen \o Dec(Len(tasks) + 1)

\* lines 155 and 173: the default of task.get('id', f'task-{len(tasks)}')
default_task_id(tasks) == s_task_hyphen \o Dec(Len(tasks))

\* the dict literal of lines 136-146, 158-168 and 185-195; the priority is
\* converted before the status
Record(acc, task_id, var_name, task_name, task, phase_label) ==
    LET prio == priority_to_beads(Get(task, k_priority, PStr(s_medium)))
        stat == status_to_beads(Get(task, k_status, PStr(s_pending)))
    IN  IF prio.exc # "" THEN Fail(prio.exc)
        ELSE IF stat.exc # "" THEN Fail(stat.exc)
        ELSE Emit(acc, [ id           |-> task_id,
                         var_name     |-> var_name,
                         name         |-> task_name,
                         description  |-> Get(task, k_description, PStr(<< >>)),
                         priority     |-> prio.val,
                         status       |-> stat.val,
                         dependencies |-> Get(task, k_dependencies, PList(<< >>)),
                         label        |-> phase_label,
                         references   |-> Get(task, k_references, PList(<< >>)) ])

\* ---- Structure 3, lines 107-146

meta_keys == { k_name, k_priority, k_estimated_hours, k_description, k_dependencies }

IsTaskLike(kv) == IsMap(kv[2]) /\ kv[1] \notin meta_keys

\* lines 124-146, one iteration
Structure3Task(acc, task_key, task_data, phase_label) ==
    IF ~IsMap(task_data) THEN acc
    ELSE LET task_id   == task_key
             task_name == truncate_name(Get(task_data, k_name,
                              Get(task_data, k_description, PStr(task_id))))
         IN  Record(acc, task_id, var_name_3(task_id), task_name, task_data, phase_label)

RECURSIVE Structure3Tasks(_, _, _)
Structure3Tasks(acc, items, phase_label) ==
    IF acc.exc # "" \/ Len(items) = 0 THEN acc
    ELSE Structure3Tasks(Structure3Task(acc, items[1][1], items[1][2], phase_label),
                         Tail(items), phase_label)

\* lines 109-122, then the loop of line 124; phase_tasks.items() raises
\* AttributeError on a value that is not a dict
Structure3Phase(acc, d, phase_key) ==
    LET phase_data == Item(d, phase_key)
    IN  IF ~IsMap(phase_data) THEN acc
        ELSE LET phase_name == Get(phase_data, k_name, PStr(phase_key))
             IN  IF ~IsStr(phase_name) THEN Fail("AttributeError")
                 ELSE LET tasks0      == Get(phase_data, k_tasks, PMap(<< >>))
                          phase_tasks == IF ~Truthy(tasks0)
                                         THEN PMap(SelectSeq(phase_data.items, IsTaskLike))
                                         ELSE tasks0
                      IN  IF ~IsMap(phase_tasks) THEN Fail("AttributeError")
                          ELSE Structure3Tasks(acc, phase_tasks.items,
                                               phase_label_of(phase_name.s))

RECURSIVE Structure3(_, _, _)
Structure3(acc, d, keys) ==
    IF acc.exc # "" \/ Len(keys) = 0 THEN acc
    ELSE Structure3(Structure3Phase(acc, d, keys[1]), d, Tail(keys))

\* ---- Structure 1, lines 149-168

\* lines 155-168, one iteration; task.get raises AttributeError on a task
\* that is not a dict, task_id.upper() on an id that is not a str
Structure1Task(acc, task, phase_label) ==
    IF ~IsMap(task) THEN Fail("AttributeError")
    ELSE LET task_id == Get(task, k_id, PStr(default_task_id(acc.tasks)))
         IN  IF ~IsStr(task_id) THEN Fail("AttributeError")
             ELSE Record(acc, task_id.s, var_name_12(task_id.s),
                         Get(task, k_name, task_id), task, phase_label)

RECURSIVE Structure1Tasks(_, _, _)
Structure1Tasks(acc, elems, phase_label) ==
    IF acc.exc # "" \/ Len(elems) = 0 THEN acc
    ELSE Structure1Tasks(Structure1Task(acc, elems[1], phase_label), Tail(elems), phase_label)

\* lines 151-154, then the loop
Structure1Phase(acc, phase, phase_idx) ==
    LET phase_name == Get(phase, k_name, Get(phase, k_id, PStr(s_phase_hyphen \o Dec(phase_idx))))
    IN  IF ~IsStr(phase_name) THEN Fail("AttributeError")
        ELSE LET it == Iter(Get(phase, k_tasks, PList(<< >>)))
             IN  IF it.exc # "" THEN Fail(it.exc)
                 ELSE Structure1Tasks(acc, it.val, phase_label_of(phase_name.s))

RECURSIVE Structure1(_, _, _)
Structure1(acc, phases, phase_idx) ==
    IF acc.exc # "" \/ Len(phases) = 0 THEN acc
    ELSE Structure1(Structure1Phase(acc, phases[1], phase_idx), Tail(phases), phase_idx + 1)

\* ---- Structure 2, lines 170-195

\* lines 177-183
phase_label_2(task, task_id, phase_names) ==
    LET phase_ref == Get(task, k_phase, PStr(<< >>))
    IN  IF Truthy(phase_ref) /\ ~Hashable(phase_ref) THEN Raise("TypeError")
        ELSE IF Truthy(phase_ref) /\ InPhaseNames(phase_names, phase_ref)
        THEN Ok(PhaseNameOf(phase_names, phase_ref))
        ELSE LET parts == Split(task_id, "-")
             IN  Ok(IF Len(parts) > 0 THEN parts[1] ELSE s_default)

\* lines 173-195, one iteration
Structure2Task(acc, task, phase_names) ==
    IF ~IsMap(task) THEN Fail("AttributeError")
    ELSE LET task_id == Get(task, k_id, PStr(default_task_id(acc.tasks)))
         IN  IF ~IsStr(task_id) THEN Fail("AttributeError")
             ELSE LET label == phase_label_2(task, task_id.s, phase_names)
                  IN  IF label.exc # "" THEN Fail(label.exc)
                      ELSE Record(acc, task_id.s, var_name_12(task_id.s),
                                  Get(task, k_name, task_id), task, label.val)

RECURSIVE Structure2Tasks(_, _, _)
Structure2Tasks(acc, elems, phase_names) ==
    IF acc.exc # "" \/ Len(elems) = 0 THEN acc
    ELSE Structure2Tasks(Structure2Task(acc, elems[1], phase_names), Tail(elems), phase_names)

Structure2(top_level_tasks, phase_names) ==
    LET it == Iter(top_level_tasks)
    IN  IF it.exc # "" THEN Fail(it.exc)
        ELSE Structure2Tasks(NoTasks, it.val, phase_names)

\* ---- the function: its return value, or the exception it raises.  The
\* document d is a mapping (yaml.safe_load of a file whose top level is one).

Raised(e) == [ exc |-> e, project |-> PNull, metadata |-> PNull, tasks |-> << >>,
               task_id_map |-> [ x \in {} |-> << >> ] ]

parse_tasks_yaml(d) ==
    LET metadata == metadata_of(d)
        project  == project_name_of(metadata)
        phases   == Iter(Get(d, k_phases, PList(<< >>)))
    IN  IF project.exc # "" THEN Raised(project.exc)
        ELSE IF phases.exc # "" THEN Raised(phases.exc)
        ELSE LET phase_names == phase_names_from(phases.val, 0, << >>)
             IN  IF phase_names.exc # "" THEN Raised(phase_names.exc)
                 ELSE LET phase_keys      == phase_keys_of(d)
                          top_level_tasks == Get(d, k_tasks, PList(<< >>))
                          structure       == SelectStructure(phase_keys,
                                                 has_nested_tasks_of(phases.val),
                                                 top_level_tasks)
                          acc == CASE structure = 3 -> Structure3(NoTasks, d, Sorted(phase_keys))
                                   [] structure = 1 -> Structure1(NoTasks, phases.val, 0)
                                   [] structure = 2 -> Structure2(top_level_tasks, phase_names.val)
                                   [] OTHER         -> NoTasks
                      IN  IF acc.exc # "" THEN Raised(acc.exc)
                          ELSE [ exc |-> "", project |-> project.val, metadata |-> metadata,
                                 tasks |-> acc.tasks, task_id_map |-> acc.task_id_map ]


(***************************************************************************)
(* generate_shell_script.  A line of the script is [cmd, a, b]: the        *)
(* command the line runs ("text" for the fixed lines, the comments and the *)
(* echo, if and fi lines) and the shell variables or words it names.       *)
(***************************************************************************)

Line(cmd, a, b) == [ cmd |-> cmd, a |-> a, b |-> b ]

Text == Line("text", << >>, << >>)

\* lines 207-229: 21 fixed lines, `bd init` the 17th
Header == [ i \in 1..21 |-> IF i = 17 THEN Line("bd init", << >>, << >>) ELSE Text ]

\* lines 232-237: the labels in the order of their first task
RECURSIVE LabelsOf(_, _)
LabelsOf(tasks, seen) ==
    IF Len(tasks) = 0 THEN seen
    ELSE LabelsOf(Tail(tasks),
                  IF tasks[1].label \in Range(seen) THEN seen ELSE Append(seen, tasks[1].label))

\* by_label[label]
ByLabel(tasks, label) == SelectSeq(tasks, LAMBDA task : task.label = label)

\* lines 246-261, one task; task['description'][:200] and its quoting raise
\* TypeError on a truthy description that is not a str
CreateLines(task) ==
    LET title == escape_shell(task.name)
    IN  IF title.exc # "" THEN title
        ELSE IF Truthy(task.description) /\ ~IsStr(task.description) THEN Raise("TypeError")
        ELSE Ok(<< Line("echo", task.id, << >>),
                   Line("bd create", title.val, task.label),
                   Line("capture", task.var_name, << >>),
                   Line("if", task.var_name, << >>),
                   Line("echo", task.id, << >>),
                   Line("fi", << >>, << >>),
                   Text >>)

RECURSIVE CreateGroup(_, _)
CreateGroup(tasks, acc) ==
    IF acc.exc # "" \/ Len(tasks) = 0 THEN acc
    ELSE LET c == CreateLines(tasks[1])
         IN  CreateGroup(Tail(tasks), IF c.exc # "" THEN c ELSE Ok(acc.val \o c.val))

\* lines 240-261
RECURSIVE CreatePass(_, _, _)
CreatePass(tasks, labels, acc) ==
    IF acc.exc # "" \/ Len(labels) = 0 THEN acc
    ELSE CreatePass(tasks, Tail(labels),
                    CreateGroup(ByLabel(tasks, labels[1]),
                                Ok(acc.val \o << Line("comment", Upper(labels[1]), << >>), Text >>)))

\* DepLines without the test of line 270
DepLines_Unfiltered(task, dep_id, task_id_map) ==
    IF ~IsStr(dep_id) THEN Ok(<< >>)
    ELSE Ok(<< Line("if", task.var_name, s_BEAD \o Upper(dep_id.s)),
               Line("bd dep add", task.var_name, s_BEAD \o Upper(dep_id.s)),
               Line("fi", << >>, << >>) >>)

\* lines 270-274, one dependency; `dep_id in task_id_map` raises TypeError on
\* an unhashable dep_id
DepLines(task, dep_id, task_id_map) ==
    IF ~Hashable(dep_id) THEN Raise("TypeError")
    ELSE IF IsStr(dep_id) /\ dep_id.s \in DOMAIN task_id_map
    THEN LET dep_var == task_id_map[dep_id.s]
         IN  Ok(<< Line("if", task.var_name, dep_var),
                   Line("bd dep add", task.var_name, dep_var),
                   Line("fi", << >>, << >>) >>)
    ELSE Ok(<< >>)

RECURSIVE DepsOfTask(_, _, _, _)
DepsOfTask(task, deps, task_id_map, acc) ==
    IF acc.exc # "" \/ Len(deps) = 0 THEN acc
    ELSE LET l == DepLines(task, deps[1], task_id_map)
         IN  DepsOfTask(task, Tail(deps), task_id_map,
                        IF l.exc # "" THEN l ELSE Ok(acc.val \o l.val))

\* lines 268-274
RECURSIVE DepPass(_, _, _)
DepPass(tasks, task_id_map, acc) ==
    IF acc.exc # "" \/ Len(tasks) = 0 THEN acc
    ELSE LET it == Iter(tasks[1].dependencies)
         IN  DepPass(Tail(tasks), task_id_map,
                     IF it.exc # "" THEN Raise(it.exc)
                     ELSE DepsOfTask(tasks[1], it.val, task_id_map, acc))

IsClosed(task) == task.status = s_closed

RECURSIVE UpdateLines(_)
UpdateLines(completed) ==
    IF Len(completed) = 0 THEN << >>
    ELSE << Line("if", completed[1].var_name, << >>),
            Line("bd update", completed[1].var_name, s_closed),
            Line("fi", << >>, << >>) >> \o UpdateLines(Tail(completed))

\* lines 277-285
ClosePass(tasks) ==
    LET completed == SelectSeq(tasks, IsClosed)
    IN  << Text, Line("comment", << >>, << >>) >>
        \o (IF Len(completed) > 0
            THEN << Line("echo", << >>, << >>) >> \o UpdateLines(completed)
            ELSE << >>)

\* lines 288-296
Summary == [ i \in 1..9 |-> IF i = 1 THEN Text ELSE Line("echo", << >>, << >>) ]

\* the lines of the script, or the exception raised while building them
generate_shell_script(d) ==
    LET created == CreatePass(d.tasks, LabelsOf(d.tasks, << >>), Ok(Header))
    IN  IF created.exc # "" THEN created
        ELSE LET deps == DepPass(d.tasks, d.task_id_map,
                                 Ok(created.val \o << Line("comment", << >>, << >>),
                                                      Line("echo", << >>, << >>), Text >>))
             IN  IF deps.exc # "" THEN deps
                 ELSE Ok(deps.val \o ClosePass(d.tasks) \o Summary)


(***************************************************************************)
(* The documents the model migrates: strings of the input files.           *)
(***************************************************************************)

\* the strings of the input documents
V ==
    [ a |-> << "a" >>,
      b |-> << "b" >>,
      c |-> << "c" >>,
      zzz |-> << "z", "z", "z" >>,
      research_foo |-> << "r", "e", "s", "e", "a", "r", "c", "h", "-", "f", "o", "o" >>,
      foo |-> << "f", "o", "o" >>,
      a_colon_b |-> << "a", ":", "b" >>,
      x_y_colon_z |-> << "x", "-", "y", ":", "z" >>,
      n1 |-> << "n", "1" >>,
      n2 |-> << "n", "2" >>,
      t1 |-> << "t", "1" >>,
      t2 |-> << "t", "2" >>,
      k1 |-> << "k", "1" >>,
      k2 |-> << "k", "2" >>,
      Phase_1_Setup |-> << "P", "h", "a", "s", "e", " ", "1", ":", " ", "S", "e", "t", "u", "p" >>,
      Build |-> << "B", "u", "i", "l", "d" >>,
      p1 |-> << "p", "1" >>,
      p9 |-> << "p", "9" >>,
      High |-> << "H", "i", "g", "h" >>,
      MEDIUM |-> << "M", "E", "D", "I", "U", "M" >>,
      urgent |-> << "u", "r", "g", "e", "n", "t" >>,
      CRITICAL |-> << "C", "R", "I", "T", "I", "C", "A", "L" >>,
      Low |-> << "L", "o", "w" >>,
      In_Progress |-> << "I", "n", "-", "P", "r", "o", "g", "r", "e", "s", "s" >>,
      IN_PROGRESS |-> << "I", "N", "_", "P", "R", "O", "G", "R", "E", "S", "S" >>,
      COMPLETED |-> << "C", "O", "M", "P", "L", "E", "T", "E", "D" >>,
      Done |-> << "D", "o", "n", "e" >>,
      blocked |-> << "b", "l", "o", "c", "k", "e", "d" >>,
      phase1_setup |-> << "p", "h", "a", "s", "e", "1", "_", "s", "e", "t", "u", "p" >>,
      phase2_build |-> << "p", "h", "a", "s", "e", "2", "_", "b", "u", "i", "l", "d" >>,
      phaseX |-> << "p", "h", "a", "s", "e", "X" >>,
      phase10 |-> << "p", "h", "a", "s", "e", "1", "0" >>,
      mp |-> << "m", "p" >>,
      mn |-> << "m", "n" >>,
      mm |-> << "m", "m" >>,
      pp |-> << "p", "p" >>,
      pn |-> << "p", "n" >>,
      pm |-> << "p", "m" >>,
      proj |-> << "p", "r", "o", "j" >>,
      its |-> << "i", "t", "'", "s" >>,
      title |-> << "F", "i", "x", " ", "t", "h", "e", " ", "b", "u", "i", "l", "d" >> ]

\* a key the mapping does not have
Missing == [ kind |-> "missing" ]

\* the item k: v of a mapping, none when v is Missing
Opt(k, v) == IF v = Missing THEN << >> ELSE << << k, v >> >>

\* a string of n characters c
Rep(c, n) == [ i \in 1..n |-> c ]

\* ---- bounds of the input families

\* how far past NameLimit the longest task name of the input reaches
MaxOver == 50

\* the number of tasks of the longest list of tasks without ids
MaxSynth == 11

\* a task of the input: the value of each field, Missing for an absent one
T0 == [ id |-> Missing, name |-> Missing, description |-> Missing, priority |-> Missing,
        status |-> Missing, dependencies |-> Missing, phase |-> Missing ]

TId(id) == [ T0 EXCEPT !.id = PStr(id) ]

\* the fields of a task mapping other than its id
Fields(t) ==
    Opt(k_name, t.name) \o Opt(k_description, t.description) \o Opt(k_priority, t.priority)
    \o Opt(k_status, t.status) \o Opt(k_dependencies, t.dependencies) \o Opt(k_phase, t.phase)

\* the task as an element of a tasks list (structures 1 and 2)
Entry(t) == PMap(Opt(k_id, t.id) \o Fields(t))

\* the task as an item of a tasks mapping keyed by id (structure 3)
KeyedEntry(t) == << t.id.s, PMap(Fields(t)) >>

\* a phase of the input: [id, name: a value or Missing, tasks: tasks]
Ph(id, name, tasks) == [ id |-> id, name |-> name, tasks |-> tasks ]

PhaseEntry(p) ==
    PMap(Opt(k_id, p.id) \o Opt(k_name, p.name)
         \o << << k_tasks, PList([ i \in DOMAIN p.tasks |-> Entry(p.tasks[i]) ]) >> >>)

\* the top-level item of the phase under the key phase<n>
PhaseKeyItem(n, p) ==
    << s_phase \o Dec(n),
       PMap(Opt(k_name, p.name)
            \o << << k_tasks, PMap([ i \in DOMAIN p.tasks |-> KeyedEntry(p.tasks[i]) ]) >> >>) >>

PhasesItem(phases) == << k_phases, PList([ i \in DOMAIN phases |-> PhaseEntry(phases[i]) ]) >>

TasksItem(tasks) == << k_tasks, PList([ i \in DOMAIN tasks |-> Entry(tasks[i]) ]) >>

\* the same phases written in each of the three structures
Doc1(phases) == PMap(<< PhasesItem(phases) >>)

RECURSIVE FlatTasks(_)
FlatTasks(phases) ==
    IF Len(phases) = 0 THEN << >> ELSE phases[1].tasks \o FlatTasks(Tail(phases))

Doc2(phases) == PMap(<< TasksItem(FlatTasks(phases)) >>)

Doc3(phases) == PMap([ i \in DOMAIN phases |-> PhaseKeyItem(i, phases[i]) ])


\* ---- documents that differ in where the project name is

\* the mapping with the keys of S among project (1), project_name (2), name (3)
MetaMap(S, a, b, c) ==
    PMap((IF 1 \in S THEN << << k_project, PStr(a) >> >> ELSE << >>)
         \o (IF 2 \in S THEN << << k_project_name, PStr(b) >> >> ELSE << >>)
         \o (IF 3 \in S THEN << << k_name, PStr(c) >> >> ELSE << >>))

MetadataChoices ==
    { Missing, PNull, PStr(V.proj), PMap(<< << k_project, PNull >>, << k_name, PStr(V.mm) >> >>) }
    \cup { MetaMap(S, V.mp, V.mn, V.mm) : S \in SUBSET { 1, 2, 3 } }

ProjectChoices ==
    { Missing, PStr(V.proj) } \cup { MetaMap(S, V.pp, V.pn, V.pm) : S \in SUBSET { 1, 2, 3 } }

ProjectDocs ==
    { PMap(Opt(k_metadata, m) \o Opt(k_project, p) \o << TasksItem(<< TId(V.a) >>) >>) :
        m \in MetadataChoices, p \in ProjectChoices }

\* ---- documents that hold tasks in several places, and malformed nodes

SetupPhase(tasks) == Ph(Missing, PStr(V.Phase_1_Setup), tasks)

BuildPhase(tasks) == Ph(PStr(V.p1), PStr(V.Build), tasks)

PhasesChoices ==
    { << >>,
      << PhasesItem(<< SetupPhase(<< TId(V.n1), TId(V.n2) >>) >>) >>,
      << PhasesItem(<< BuildPhase(<< >>), SetupPhase(<< TId(V.n1) >>) >>) >>,
      << << k_phases, PList(<< PMap(<< << k_id, PStr(V.p1) >>, << k_name, PStr(V.Build) >> >>) >>) >> >>,
      << << k_phases, PList(<< PStr(V.zzz), PhaseEntry(SetupPhase(<< TId(V.n1) >>)) >>) >> >>,
      << << k_phases, PList(<< PMap(<< << k_name, PStr(V.Build) >>,
                                      << k_tasks, PList(<< PStr(V.zzz), Entry(TId(V.n1)) >>) >> >>) >>) >> >>,
      << << k_phases, PList(<< PMap(<< << k_name, PStr(V.Build) >>, << k_tasks, PNull >> >>),
                               PhaseEntry(SetupPhase(<< TId(V.n1) >>)) >>) >> >> }

TasksChoices ==
    { << >>,
      << TasksItem(<< >>) >>,
      << TasksItem(<< TId(V.t1), TId(V.t2) >>) >>,
      << << k_tasks, PList(<< PStr(V.zzz), Entry(TId(V.t1)) >>) >> >> }

KeyedChoices ==
    { << >>,
      << PhaseKeyItem(1, BuildPhase(<< TId(V.k1), TId(V.k2) >>)) >>,
      << << V.phase1_setup, PStr(V.zzz) >> >>,
      << << V.phase1_setup, PStr(V.zzz) >>,
         << V.phase2_build, PMap(<< << k_tasks, PMap(<< KeyedEntry(TId(V.k1)) >>) >> >>) >> >>,
      << << V.phase2_build, PMap(<< << k_tasks, PMap(<< KeyedEntry(TId(V.k1)) >>) >> >>) >>,
         << V.phase10, PMap(<< << k_name, PStr(V.Phase_1_Setup) >>, << k_priority, PStr(s_high) >>,
                               KeyedEntry(TId(V.k2)) >>) >> >>,
      << << V.phaseX, PMap(<< << k_tasks, PMap(<< KeyedEntry(TId(V.k1)) >>) >> >>) >> >>,
      << << s_phase, PMap(<< << k_tasks, PMap(<< KeyedEntry(TId(V.k1)) >>) >> >>) >> >>,
      << << V.phase1_setup, PMap(<< << k_tasks, PMap(<< << V.k1, PStr(V.zzz) >>,
                                                         KeyedEntry(TId(V.k2)) >>) >> >>) >> >>,
      << << V.phase1_setup, PMap(<< << k_tasks, PMap(<< >>) >> >>) >> >>,
      << << V.phase1_setup, PMap(<< << k_tasks, PList(<< Entry(TId(V.k1)) >>) >> >>) >> >>,
      << << V.phase1_setup, PMap(<< << k_name, PInt(1) >>,
                                    << k_tasks, PMap(<< KeyedEntry(TId(V.k1)) >>) >> >>) >> >> }

StructureDocs ==
    { PMap(p \o t \o k) : p \in PhasesChoices, t \in TasksChoices, k \in KeyedChoices }

\* ---- documents of one task, in each structure, that differ in one field

IdChoices == { V.a, V.research_foo, V.foo, V.a_colon_b, V.x_y_colon_z, << >> }

PriorityChoices ==
    { Missing, PNull, PInt(1), PStr(s_critical), PStr(V.CRITICAL), PStr(V.High),
      PStr(V.MEDIUM), PStr(V.Low), PStr(V.urgent) }

StatusChoices ==
    { Missing, PNull, PInt(0), PStr(s_pending), PStr(V.In_Progress), PStr(V.IN_PROGRESS),
      PStr(V.COMPLETED), PStr(V.Done), PStr(V.blocked) }

NameChoices ==
    { Missing, PInt(5), PStr(V.title), PStr(V.its), PStr(Rep("x", NameLimit - 1)),
      PStr(Rep("x", NameLimit)), PStr(Rep("x", NameLimit + 1)),
      PStr(Rep("x", NameLimit + MaxOver)) }

PhaseRefChoices == { Missing, PStr(V.p1), PStr(V.p9), PStr(<< >>), PInt(3), PList(<< PStr(V.p1) >>) }

DescriptionChoices == { PNull, PInt(5), PStr(V.its), PStr(Rep("y", NameLimit + 1)) }

OneTasks ==
    { [ TId(V.a) EXCEPT !.priority = p, !.status = s ] : p \in PriorityChoices, s \in StatusChoices }
    \cup { [ TId(i) EXCEPT !.name = n ] : i \in IdChoices, n \in NameChoices }
    \cup { [ TId(i) EXCEPT !.phase = r ] : i \in IdChoices, r \in PhaseRefChoices }
    \cup { [ TId(V.a) EXCEPT !.description = d ] : d \in DescriptionChoices }

\* a task without a usable key for structure 3
OneTasksNoKey == { [ T0 EXCEPT !.id = i ] : i \in { Missing, PNull, PInt(7) } }

\* phases that hold no tasks: the phase metadata of structure 2
PhaseMetadata ==
    << k_phases, PList(<< PMap(<< << k_id, PStr(V.p1) >>, << k_name, PStr(V.Phase_1_Setup) >> >>),
                          PMap(<< << k_name, PStr(V.Build) >> >>) >>) >>

FieldDocs ==
    { Doc1(<< SetupPhase(<< t >>) >>) : t \in OneTasks \cup OneTasksNoKey }
    \cup { Doc2(<< SetupPhase(<< t >>) >>) : t \in OneTasksNoKey }
    \cup { PMap(<< PhaseMetadata, TasksItem(<< t >>) >>) : t \in OneTasks }
    \cup { Doc3(<< SetupPhase(<< t >>) >>) : t \in OneTasks }

\* ---- documents of several tasks, some without an id

\* task i of a list: with the id e<i> when i is in S, without an id otherwise
SomeId(i, S) == IF i \in S THEN TId(<< "e" >> \o Dec(i)) ELSE T0

\* tasks a..b of the list
Run(a, b, S) == [ i \in 1..(b - a + 1) |-> SomeId(a + i - 1, S) ]

IdPhases ==
    { << BuildPhase(Run(1, 2, S)), SetupPhase(Run(3, 4, S)) >> : S \in SUBSET (1..4) }
    \cup { << BuildPhase(Run(1, 1, S)), SetupPhase(<< >>), Ph(Missing, Missing, Run(2, 4, S)) >> :
             S \in SUBSET (1..4) }
    \cup { << BuildPhase(Run(1, 3, { })), SetupPhase(Run(4, MaxSynth, { })) >> }
    \cup { << BuildPhase(<< TId(s_task_hyphen \o Dec(1)), T0, T0 >>) >> }

IdDocs == { Doc1(p) : p \in IdPhases } \cup { Doc2(p) : p \in IdPhases }

\* ---- documents of three tasks with dependencies and statuses

DependencyChoices ==
    { Missing, PNull, PList(<< >>), PList(<< PStr(V.research_foo) >>),
      PList(<< PStr(V.x_y_colon_z), PStr(V.zzz) >>), PList(<< PStr(V.zzz), PInt(1) >>) }

DepTask(id, deps, closed) ==
    [ TId(id) EXCEPT !.dependencies = deps,
                     !.status = IF closed THEN PStr(V.Done) ELSE Missing ]

DependencyDocs ==
    { Doc2(<< SetupPhase(<< DepTask(V.research_foo, d1, 1 \in C),
                            DepTask(V.x_y_colon_z, d2, 2 \in C),
                            DepTask(<< "r", "e", "s", "e", "a", "r", "c", "h", "-", "b" >>, d3, 3 \in C) >>) >>) :
        d1 \in DependencyChoices, d2 \in DependencyChoices,
        d3 \in { Missing, PList(<< PStr(V.x_y_colon_z), PStr(V.research_foo) >>) },
        C \in SUBSET { 1, 2, 3 } }

\* ---- the same tasks written in the three structures, one file each

EquivTask(id, p, s) == [ TId(id) EXCEPT !.priority = p, !.status = s ]

EquivPhases ==
    UNION { { << BuildPhase(<< A >>) >>,
              << BuildPhase(<< A, EquivTask(V.b, PStr(V.Low), PStr(s_pending)) >>) >>,
              << BuildPhase(<< A >>), SetupPhase(<< EquivTask(V.b, PStr(s_critical), PStr(V.blocked)) >>) >>,
              << BuildPhase(<< A >>), SetupPhase(<< >>) >>,
              << BuildPhase(<< >>), SetupPhase(<< A >>) >>,
              << BuildPhase(<< EquivTask(V.c, PStr(V.MEDIUM), PStr(V.COMPLETED)), A >>),
                 SetupPhase(<< EquivTask(V.b, PStr(V.Low), PStr(s_pending)) >>) >> } :
            A \in { EquivTask(V.a, p, s) :
                      p \in { PStr(V.High), PStr(s_low), PStr(V.urgent), PInt(1) },
                      s \in { PStr(V.Done), PStr(s_pending), PStr(V.In_Progress) } } }

EquivBatches == { << Doc1(p), Doc2(p), Doc3(p) >> : p \in EquivPhases }

Docs == ProjectDocs \cup StructureDocs \cup FieldDocs \cup IdDocs \cup DependencyDocs

(***************************************************************************)
(* main, run once for each file of a batch: parse the file, render the     *)
(* script, print it.  pc is the place of the current run.                  *)
(***************************************************************************)

NoData == Raised("")

\* the runs finished so far
Finished == Len(outputs)

\* the document of the current run (of the last one, once all have ended)
Doc == files[IF Finished < Len(files) THEN Finished + 1 ELSE Len(files)]

Init ==
    /\ files \in { << d >> : d \in Docs } \cup EquivBatches
    /\ pc = "start"
    /\ data = NoData
    /\ script = << >>
    /\ outputs = << >>

\* line 379 returns
Parse ==
    /\ pc = "start"
    /\ parse_tasks_yaml(Doc).exc = ""
    /\ data' = parse_tasks_yaml(Doc)
    /\ pc' = "parsed"
    /\ UNCHANGED << files, script, outputs >>

\* line 379 raises: lines 380-388 without --fallback-claude print the error
\* and exit with status 1
ParseRaises ==
    /\ pc = "start"
    /\ parse_tasks_yaml(Doc).exc # ""
    /\ data' = parse_tasks_yaml(Doc)
    /\ pc' = "exit1"
    /\ UNCHANGED << files, script, outputs >>

\* lines 393 and 418: the script is rendered and printed
Generate ==
    /\ pc = "parsed"
    /\ generate_shell_script(data).exc = ""
    /\ script' = generate_shell_script(data).val
    /\ pc' = "printed"
    /\ UNCHANGED << files, data, outputs >>

\* line 393 raises: nothing catches the exception
GenerateRaises ==
    /\ pc = "parsed"
    /\ generate_shell_script(data).exc # ""
    /\ pc' = "traceback"
    /\ UNCHANGED << files, data, script, outputs >>

\* the process of the current run has ended; the next file's starts
NextFile ==
    /\ pc \in { "printed", "exit1", "traceback" }
    /\ outputs' = Append(outputs, [ pc |-> pc, data |-> data, script |-> script ])
    /\ pc' = IF Finished + 1 < Len(files) THEN "start" ELSE "done"
    /\ data' = NoData
    /\ script' = << >>
    /\ UNCHANGED files

Next == Parse \/ ParseRaises \/ Generate \/ GenerateRaises \/ NextFile

Spec == Init /\ [][Next]_vars


(***************************************************************************)
(* What a document says, read off the document itself: the vocabulary of   *)
(* the properties below.                                                   *)
(***************************************************************************)

RECURSIVE Flatten(_)
Flatten(ss) == IF Len(ss) = 0 THEN << >> ELSE ss[1] \o Flatten(Tail(ss))

IsList(v) == v.kind = "list"

\* a task of the document: the id it is written with (Missing for none) and
\* its node
Src(id, node) == [ id |-> id, node |-> node ]

ListSrc(xs) == [ i \in DOMAIN xs |-> Src(IF IsMap(xs[i]) THEN Get(xs[i], k_id, Missing) ELSE Missing, xs[i]) ]

MapSrc(kvs) == [ i \in DOMAIN kvs |-> Src(PStr(kvs[i][1]), kvs[i][2]) ]

PhaseElems(d) == IF Has(d, k_phases) /\ IsList(Item(d, k_phases)) THEN Item(d, k_phases).items ELSE << >>

NestedOf(phase) ==
    IF IsMap(phase) /\ Has(phase, k_tasks) /\ IsList(Item(phase, k_tasks))
    THEN ListSrc(Item(phase, k_tasks).items) ELSE << >>

\* shape 1: the entries of phases[].tasks in document order
NestedPlace(d) == Flatten([ i \in DOMAIN PhaseElems(d) |-> NestedOf(PhaseElems(d)[i]) ])

\* shape 2: the entries of the top-level tasks
TopPlace(d) == IF Has(d, k_tasks) /\ IsList(Item(d, k_tasks)) THEN ListSrc(Item(d, k_tasks).items) ELSE << >>

PhaseKeys(d) == SelectSeq(Keys(d), LAMBDA k : StartsWith(k, s_phase) /\ Len(k) > 5 /\ k[6] \in Range(Digits))

\* the entries of the tasks mapping of a phase<digit> value
KeyedOf(v) ==
    IF IsMap(v) /\ Has(v, k_tasks) /\ IsMap(Item(v, k_tasks))
    THEN MapSrc(Item(v, k_tasks).items) ELSE << >>

\* shape 3: the entries of the tasks mappings under the phase<digit> keys, the
\* keys in sorted order
KeyedPlace(d) == Flatten([ i \in DOMAIN PhaseKeys(d) |-> KeyedOf(Item(d, Sorted(PhaseKeys(d))[i])) ])

HasPhaseKeys(d) == Len(PhaseKeys(d)) > 0

\* the document matches shape 1: a phases entry with a non-empty tasks sequence
NestedMatch(d) == Len(NestedPlace(d)) > 0

\* the document matches shape 2: a non-empty top-level tasks sequence
TopMatch(d) == Len(TopPlace(d)) > 0

WellFormed(src) == IsMap(src.node)

\* the ids of the task records of the current run, in output order
Ids == [ i \in DOMAIN data.tasks |-> data.tasks[i].id ]

\* the ids the well-formed entries of a place are recorded with
RECURSIVE PlaceIds(_, _)
PlaceIds(srcs, n) ==
    IF Len(srcs) = 0 THEN << >>
    ELSE IF ~WellFormed(srcs[1]) THEN PlaceIds(Tail(srcs), n)
    ELSE << IF IsStr(srcs[1].id) THEN srcs[1].id.s ELSE s_task_hyphen \o Dec(n) >>
         \o PlaceIds(Tail(srcs), n + 1)

\* Every field of every node has the type the script expects of it;
\* `strict` extends this to the priority and the status.  A node that is
\* not a mapping has no fields: such a document has at most malformed nodes.
StrIfPresent(m, k) == Has(m, k) => IsStr(Item(m, k))

RegularTask(t, strict) ==
    IsMap(t) =>
        /\ StrIfPresent(t, k_id) /\ StrIfPresent(t, k_name) /\ StrIfPresent(t, k_phase)
        /\ StrIfPresent(t, k_description)
        /\ Has(t, k_dependencies) => IsList(Item(t, k_dependencies))
        /\ strict => (StrIfPresent(t, k_priority) /\ StrIfPresent(t, k_status))

RegularList(v, strict) == IsList(v) /\ \A i \in DOMAIN v.items : RegularTask(v.items[i], strict)

RegularPhase(p, strict) ==
    IsMap(p) =>
        /\ StrIfPresent(p, k_id) /\ StrIfPresent(p, k_name)
        /\ Has(p, k_tasks) => RegularList(Item(p, k_tasks), strict)

RegularKeyed(v, strict) ==
    IsMap(v) =>
        /\ StrIfPresent(v, k_name)
        /\ Has(v, k_tasks)
        /\ IsMap(Item(v, k_tasks))
        /\ Len(Item(v, k_tasks).items) > 0
        /\ \A i \in DOMAIN Item(v, k_tasks).items : RegularTask(Item(v, k_tasks).items[i][2], strict)

Regular(d, strict) ==
    /\ Has(d, k_metadata) => IsMap(Item(d, k_metadata))
    /\ Has(d, k_phases) =>
           /\ IsList(Item(d, k_phases))
           /\ \A i \in DOMAIN PhaseElems(d) : RegularPhase(PhaseElems(d)[i], strict)
    /\ Has(d, k_tasks) => RegularList(Item(d, k_tasks), strict)
    /\ \A i \in DOMAIN PhaseKeys(d) : RegularKeyed(Item(d, PhaseKeys(d)[i]), strict)

\* every node that should be a mapping is one
NoMalformedNode(d) ==
    /\ \A i \in DOMAIN PhaseElems(d) : IsMap(PhaseElems(d)[i])
    /\ \A i \in DOMAIN NestedPlace(d) : WellFormed(NestedPlace(d)[i])
    /\ \A i \in DOMAIN TopPlace(d) : WellFormed(TopPlace(d)[i])
    /\ \A i \in DOMAIN PhaseKeys(d) : IsMap(Item(d, PhaseKeys(d)[i]))
    /\ \A i \in DOMAIN KeyedPlace(d) : WellFormed(KeyedPlace(d)[i])

(***************************************************************************)
(* C1                                                                      *)
(***************************************************************************)

\* C1, as claimed: the shapes are tried in the order 1, 2, 3.  The records of
\* a document that matches shape 1 are those nested under phases, whatever
\* phase<digit> keys it has; failing that, the records of a document that
\* matches shape 2 are those of the top-level tasks.  (Stated of the
\* documents without a malformed node.)
C1_Shape1First ==
    (pc = "parsed" /\ NoMalformedNode(Doc)) =>
        /\ NestedMatch(Doc) => Ids = PlaceIds(NestedPlace(Doc), 0)
        /\ (~NestedMatch(Doc) /\ TopMatch(Doc)) => Ids = PlaceIds(TopPlace(Doc), 0)

\* C1, amended: the shapes are tried in the order 3, 1, 2 and the records of a
\* run all come from the first shape that matches.  With a phase<digit> key
\* in the document every record comes from under those keys, and every entry
\* of their tasks mappings is recorded; without one the records are those
\* nested under phases when shape 1 matches, and those of the top-level tasks
\* otherwise.
C1_Shape3First ==
    pc = "parsed" =>
        /\ HasPhaseKeys(Doc) =>
               /\ \A i \in DOMAIN Ids :
                      \E j \in DOMAIN PhaseKeys(Doc) :
                          /\ IsMap(Item(Doc, PhaseKeys(Doc)[j]))
                          /\ \/ Has(Item(Doc, PhaseKeys(Doc)[j]), Ids[i])
                             \/ \E l \in DOMAIN KeyedPlace(Doc) : KeyedPlace(Doc)[l].id.s = Ids[i]
               /\ \A l \in DOMAIN KeyedPlace(Doc) :
                      WellFormed(KeyedPlace(Doc)[l]) => KeyedPlace(Doc)[l].id.s \in Range(Ids)
        /\ (~HasPhaseKeys(Doc) /\ NestedMatch(Doc)) => Ids = PlaceIds(NestedPlace(Doc), 0)
        /\ (~HasPhaseKeys(Doc) /\ ~NestedMatch(Doc)) => Ids = PlaceIds(TopPlace(Doc), 0)

\* a document that matches all three shapes has been parsed, and its records
\* are not those nested under phases
C1_Witness ==
    /\ pc = "parsed"
    /\ HasPhaseKeys(Doc) /\ NestedMatch(Doc) /\ TopMatch(Doc)
    /\ Len(Ids) > 0
    /\ Ids # PlaceIds(NestedPlace(Doc), 0)

(***************************************************************************)
(* C2                                                                      *)
(***************************************************************************)

\* the place of the shape the script reads a document in
Place(d) ==
    IF HasPhaseKeys(d) THEN KeyedPlace(d)
    ELSE IF NestedMatch(d) THEN NestedPlace(d)
    ELSE TopPlace(d)

\* C2: on a document whose only irregularities are nodes that are not
\* mappings, extraction does not raise, and the well-formed entries of the
\* place it reads are all recorded.
C2_MalformedNodesSkipped ==
    Regular(Doc, TRUE) =>
        /\ pc # "exit1"
        /\ pc = "parsed" => Ids = PlaceIds(Place(Doc), 0)

(***************************************************************************)
(* C3                                                                      *)
(***************************************************************************)

\* the priority the claim gives a task node
ClaimedPriority(t) ==
    IF ~Has(t, k_priority) \/ ~IsStr(Item(t, k_priority)) THEN 2
    ELSE LET p == Lower(Item(t, k_priority).s)
         IN  IF p = s_critical THEN 0 ELSE IF p = s_high THEN 1
             ELSE IF p = s_low THEN 3 ELSE 2

\* the status the claim gives a task node
ClaimedStatus(t) ==
    IF ~Has(t, k_status) \/ ~IsStr(Item(t, k_status)) THEN s_open
    ELSE LET s == Lower(Item(t, k_status).s)
         IN  IF s \in { s_in_progress_hyphen, s_in_progress } THEN s_in_progress
             ELSE IF s \in { s_completed, s_done } THEN s_closed
             ELSE s_open

\* the well-formed entries of the place the script reads, in order
Sources(d) == SelectSeq(Place(d), WellFormed)

\* C3: whatever the priority and the status of its tasks are, a document
\* with no other irregularity does not fail the run, and each record has the
\* priority and the status of the table.
C3_NormalizationTotal ==
    (Regular(Doc, FALSE) /\ NoMalformedNode(Doc)) =>
        /\ pc # "exit1"
        /\ pc = "parsed" =>
               /\ Len(data.tasks) = Len(Sources(Doc))
               /\ \A i \in DOMAIN data.tasks :
                      /\ data.tasks[i].priority = ClaimedPriority(Sources(Doc)[i].node)
                      /\ data.tasks[i].status = ClaimedStatus(Sources(Doc)[i].node)

(***************************************************************************)
(* C4                                                                      *)
(***************************************************************************)

\* C4: in every shape no record has a name longer than NameLimit + 3
\* characters, and a name of the document longer than NameLimit is recorded
\* as its first NameLimit characters and the ellipsis.
C4_NamesTruncated ==
    (pc = "parsed" /\ Regular(Doc, TRUE)) =>
        /\ Len(data.tasks) = Len(Sources(Doc))
        /\ \A i \in DOMAIN data.tasks :
               LET t == Sources(Doc)[i].node
                   n == data.tasks[i].name
               IN  /\ IsStr(n) /\ Len(n.s) <= NameLimit + 3
                   /\ Has(t, k_name) =>
                          n.s = IF Len(Item(t, k_name).s) > NameLimit
                                THEN SubSeq(Item(t, k_name).s, 1, NameLimit) \o s_ellipsis
                                ELSE Item(t, k_name).s

(***************************************************************************)
(* C5                                                                      *)
(***************************************************************************)

\* C5: in shapes 1 and 2 the record of the k-th task of the output (from 0)
\* has the id task-<k> when the task is written without an id, so the ids of
\* a document without ids are task-0, task-1, ... across its phases.
C5_IdSynthesis ==
    (pc = "parsed" /\ ~HasPhaseKeys(Doc)) =>
        /\ Len(data.tasks) = Len(Place(Doc))
        /\ \A i \in DOMAIN data.tasks :
               Place(Doc)[i].id = Missing => data.tasks[i].id = s_task_hyphen \o Dec(i - 1)

\* a task without an id in the second phase of a shape 1 document, after a
\* task with one, has been recorded
C5_Witness ==
    /\ pc = "parsed" /\ ~HasPhaseKeys(Doc) /\ NestedMatch(Doc)
    /\ Len(PhaseElems(Doc)) > 1
    /\ Len(data.tasks) >= 4
    /\ Place(Doc)[1].id # Missing
    /\ Place(Doc)[4].id = Missing
    /\ data.tasks[4].id = s_task_hyphen \o << "3" >>
    /\ data.tasks[4].label # data.tasks[1].label

(***************************************************************************)
(* C6                                                                      *)
(***************************************************************************)

\* C6: the reference token of every record, and the entry of task_id_map for
\* its id, is BEAD_ and the id in upper case with every hyphen and every
\* colon replaced by an underscore.
C6_ReferenceToken ==
    pc = "parsed" =>
        \A i \in DOMAIN data.tasks :
            LET token == s_BEAD \o ReplaceChar(ReplaceChar(Upper(data.tasks[i].id), "-", "_"), ":", "_")
            IN  /\ data.tasks[i].var_name = token
                /\ data.task_id_map[data.tasks[i].id] = token
                /\ "-" \notin Range(data.tasks[i].var_name)
                /\ ":" \notin Range(data.tasks[i].var_name)

(***************************************************************************)
(* C7                                                                      *)
(***************************************************************************)

\* the ids of the phases of the document
PhaseIds(d) ==
    { Get(PhaseElems(d)[i], k_id, PStr(s_phase_hyphen \o Dec(i - 1))) : i \in DOMAIN PhaseElems(d) }

\* C7: in shape 2 the label of a task whose phase is absent or names no phase
\* is the text of its id before the first hyphen, and `default` when the id
\* has no hyphen.
C7_LabelFromId ==
    (pc = "parsed" /\ ~HasPhaseKeys(Doc) /\ ~NestedMatch(Doc) /\ TopMatch(Doc)) =>
        \A i \in DOMAIN data.tasks :
            LET t  == TopPlace(Doc)[i].node
                id == data.tasks[i].id
            IN  (~Has(t, k_phase) \/ Item(t, k_phase) \notin PhaseIds(Doc)) =>
                    data.tasks[i].label =
                        IF "-" \in Range(id)
                        THEN SubSeq(id, 1, (CHOOSE j \in DOMAIN id :
                                               id[j] = "-" /\ \A l \in 1..(j - 1) : id[l] # "-") - 1)
                        ELSE s_default


(***************************************************************************)
(* C8                                                                      *)
(***************************************************************************)

\* the id, priority and status of every record of a finished run
Triples(run) ==
    { << run.data.tasks[i].id, run.data.tasks[i].priority, run.data.tasks[i].status >> :
        i \in DOMAIN run.data.tasks }

\* C8: the three files of a batch hold the same tasks, with explicit ids,
\* priorities and statuses, in shape 1, shape 2 and shape 3; their runs end
\* alike, with records of the same ids, priorities and statuses.
C8_ShapeIndependence ==
    (Len(files) = 3 /\ Finished = 3) =>
        \A s \in { 2, 3 } :
            /\ outputs[s].pc = outputs[1].pc
            /\ Triples(outputs[s]) = Triples(outputs[1])

(***************************************************************************)
(* C9                                                                      *)
(***************************************************************************)

\* project, else project_name, else name, else the literal unknown
NameIn(m) ==
    IF Has(m, k_project) THEN Item(m, k_project)
    ELSE IF Has(m, k_project_name) THEN Item(m, k_project_name)
    ELSE IF Has(m, k_name) THEN Item(m, k_name)
    ELSE PStr(s_unknown)

ProjectMapping(d) ==
    IF Has(d, k_project) /\ IsMap(Item(d, k_project)) THEN Item(d, k_project) ELSE PMap(<< >>)

\* C9, as claimed: the name is read from the top-level metadata mapping if
\* the document has one, else from the project mapping.
C9_MetadataIfPresent ==
    pc = "parsed" =>
        data.project = NameIn(IF Has(Doc, k_metadata) /\ IsMap(Item(Doc, k_metadata))
                              THEN Item(Doc, k_metadata)
                              ELSE ProjectMapping(Doc))

\* C9, amended: the name is read from the top-level metadata mapping if the
\* document has one that is not empty, else from the project mapping, and is
\* unknown when neither has one of the three keys.
C9_MetadataIfNotEmpty ==
    pc = "parsed" =>
        data.project = NameIn(IF Has(Doc, k_metadata) /\ IsMap(Item(Doc, k_metadata))
                                 /\ Len(Item(Doc, k_metadata).items) > 0
                              THEN Item(Doc, k_metadata)
                              ELSE ProjectMapping(Doc))

\* a document with an empty metadata mapping and a project mapping has been
\* parsed, and the name is the one of the project mapping
C9_Witness ==
    /\ pc = "parsed"
    /\ Has(Doc, k_metadata) /\ Item(Doc, k_metadata) = PMap(<< >>)
    /\ Has(Doc, k_project) /\ IsMap(Item(Doc, k_project))
    /\ ~Has(Item(Doc, k_project), k_project) /\ Has(Item(Doc, k_project), k_project_name)
    /\ data.project = PStr(V.pn)

(***************************************************************************)
(* C10                                                                     *)
(***************************************************************************)

LinesOf(cmd) == { i \in DOMAIN script : script[i].cmd = cmd }

\* the dependencies of a record that are ids of records of the run
KnownDeps(task) ==
    IF IsList(task.dependencies)
    THEN SelectSeq(task.dependencies.items,
                   LAMBDA dep : IsStr(dep) /\ \E j \in DOMAIN data.tasks : data.tasks[j].id = dep.s)
    ELSE << >>

\* C10: in the script printed, every bd create line comes before every bd dep
\* add line and every bd dep add line before every bd update line; there is
\* one bd create line for each record, a bd dep add line only for a
\* dependency that is the id of a record of the run (as many lines as there
\* are such dependencies), and a bd update line only for a closed record.
C10_ThreePasses ==
    pc = "printed" =>
        /\ \A i \in LinesOf("bd create") : \A j \in LinesOf("bd dep add") : i < j
        /\ \A j \in LinesOf("bd dep add") : \A k \in LinesOf("bd update") : j < k
        /\ \A i \in LinesOf("bd create") : \A k \in LinesOf("bd update") : i < k
        /\ Cardinality(LinesOf("bd create")) = Len(data.tasks)
        /\ \A j \in LinesOf("bd dep add") :
               \E i \in DOMAIN data.tasks :
                   /\ script[j].a = data.tasks[i].var_name
                   /\ \E l \in DOMAIN KnownDeps(data.tasks[i]) :
                          script[j].b = data.task_id_map[KnownDeps(data.tasks[i])[l].s]
        /\ Cardinality(LinesOf("bd dep add"))
               = Len(Flatten([ i \in DOMAIN data.tasks |-> KnownDeps(data.tasks[i]) ]))
        /\ \A k \in LinesOf("bd update") :
               \E i \in DOMAIN data.tasks :
                   script[k].a = data.tasks[i].var_name /\ data.tasks[i].status = s_closed
        /\ Cardinality(LinesOf("bd update"))
               = Len(SelectSeq(data.tasks, LAMBDA task : task.status = s_closed))

\* a script has been printed for records of two labels, with a dependency
\* on a record of the run, a dangling dependency and a closed record
C10_Witness ==
    /\ pc = "printed"
    /\ Len(data.tasks) = 3
    /\ data.tasks[1].label = data.tasks[3].label /\ data.tasks[1].label # data.tasks[2].label
    /\ LinesOf("bd dep add") # { }
    /\ LinesOf("bd update") # { }
    /\ \E i \in DOMAIN data.tasks :
           /\ IsList(data.tasks[i].dependencies)
           /\ Len(KnownDeps(data.tasks[i])) > 0
           /\ Len(KnownDeps(data.tasks[i])) < Len(data.tasks[i].dependencies.items)
    /\ \E i \in DOMAIN data.tasks : data.tasks[i].status # s_closed

====
